---- MODULE Spec2Model ----
(***************************************************************************)
(* Page-replacement simulator: the four eviction policies of               *)
(* algorithms.py (FIFO, LRU, Optimal, MGLRU), the single-process driver of *)
(* simulation.py with its MetricsCollector, and the fixed-allocation       *)
(* multi-process driver of multi_process_simulation.py.                    *)
(*                                                                         *)
(* Python lists, deques and dicts are sequences (a dict is the sequence of *)
(* its <<key, value>> items in insertion order); Python indices are        *)
(* 0-based, sequence positions 1-based, so generation g of the code is     *)
(* generations[g + 1] here.  An exception raised by the code is recorded   *)
(* in the field err of the object that raised it and ends the run.         *)
(***************************************************************************)
EXTENDS Integers, Sequences, FiniteSets, TLC

\* ------------------------------------------------------------------ bounds
MaxPage == 3
MaxLen == 5
MaxFrames == 2
MaxGens == 3
MaxThreshold == 2
MaxProcs == 2
MaxMPPage == 2
MaxMPLen == 3
MaxTotalFrames == 4

Pages == 1..MaxPage

\* Python's None, as the value of page_to_evict when nothing is evicted.
None == -1

\* MGLRU.__init__ defaults.
DefaultNumGenerations == 4
DefaultAgingThreshold == 10

\* ------------------------------------------------- list / deque / dict ops
\* x in lst
In(x, lst) == \E j \in DOMAIN lst : lst[j] = x

\* lst.index(x): 0-based position of the first occurrence (x must occur)
ListIndex(lst, x) == (CHOOSE j \in DOMAIN lst : lst[j] = x /\ \A k \in 1..(j - 1) : lst[k] # x) - 1

\* lst.remove(x): drops the first occurrence (x must occur)
ListRemove(lst, x) ==
  LET j == ListIndex(lst, x) + 1
  IN  SubSeq(lst, 1, j - 1) \o SubSeq(lst, j + 1, Len(lst))

\* lst[n:] for 0 <= n
Slice(lst, n) == SubSeq(lst, n + 1, Len(lst))

\* key in d
DictHas(d, key) == \E j \in DOMAIN d : d[j][1] = key

\* d[key]
DictGet(d, key) == d[CHOOSE j \in DOMAIN d : d[j][1] = key][2]

\* d[key] = val: an existing key keeps its position, a new key goes last
DictSet(d, key, val) ==
  IF DictHas(d, key)
  THEN [j \in DOMAIN d |-> IF d[j][1] = key THEN <<key, val>> ELSE d[j]]
  ELSE Append(d, <<key, val>>)

\* del d[key] (key must be present)
DictDel(d, key) == SelectSeq(d, LAMBDA item : item[1] # key)

\* list(d.keys())
DictKeys(d) == [j \in DOMAIN d |-> d[j][1]]

\* ------------------------------------------------------- policy instances
\* The fields of every policy object; a field a class does not have stays
\* at its empty value.
NoAlgo ==
  [kind |-> "none", num_frames |-> 0, frames |-> <<>>, page_faults |-> 0,
   page_hits |-> 0, step |-> 0, timeline |-> <<>>, queue |-> <<>>,
   num_generations |-> 0, aging_threshold |-> 0, generations |-> <<>>,
   page_map |-> <<>>, current_page_count |-> 0, age_tick_counter |-> 0,
   generation_log |-> <<>>, err |-> ""]

Raise(self, exc) == [self EXCEPT !.err = exc]

\* mutant: only negative frame counts are rejected
InvalidFrames_lt0(num_frames) == num_frames < 0

\* mutant: only a frame count of zero is rejected
InvalidFrames_only_zero(num_frames) == num_frames = 0

\* if num_frames <= 0: raise ValueError
InvalidFrames(num_frames) == num_frames <= 0

\* PageReplacementAlgorithm.__init__
Base_init(kind, num_frames) ==
  IF InvalidFrames(num_frames)
  THEN Raise(NoAlgo, "ValueError")
  ELSE [NoAlgo EXCEPT !.kind = kind, !.num_frames = num_frames]

\* MGLRU.__init__
MGLRU_init(num_frames, num_generations, aging_threshold) ==
  LET base == Base_init("MGLRU", num_frames)
  IN  IF base.err # "" THEN base
      ELSE [base EXCEPT !.num_generations = num_generations,
                        !.aging_threshold = aging_threshold,
                        !.generations = [g \in 1..num_generations |-> <<>>]]

\* alg_class(num_frames): MGLRU takes its default generations and threshold
NewPolicy(alg_class, num_frames) ==
  IF alg_class = "MGLRU"
  THEN MGLRU_init(num_frames, DefaultNumGenerations, DefaultAgingThreshold)
  ELSE Base_init(alg_class, num_frames)

\* mutant: the free-frame test off by one
HasFreeFrame_le(f) == Len(f.frames) <= f.num_frames

\* len(self.frames) < self.num_frames, the test of FIFO, LRU and Optimal for a
\* fault that needs no eviction
HasFreeFrame(f) == Len(f.frames) < f.num_frames

\* ------------------------------------------------------------------- FIFO
\* mutant: a hit refreshes the page's place in the arrival queue
FIFO_hit_requeue(s, page_number) ==
  [s EXCEPT !.page_hits = @ + 1,
            !.queue = Append(ListRemove(@, page_number), page_number),
            !.timeline = Append(@, <<s.step, page_number, "Hit", s.frames>>)]

\* the hit branch: counter and timeline only
FIFO_hit(s, page_number) ==
  [s EXCEPT !.page_hits = @ + 1,
            !.timeline = Append(@, <<s.step, page_number, "Hit", s.frames>>)]

\* mutant: the new page goes to the front of the frame list
FIFO_fault_frames_prepend(s, page_number) ==
  LET f == [s EXCEPT !.page_faults = @ + 1]
      page_to_evict == IF HasFreeFrame(f) THEN None ELSE Head(f.queue)
      fr == IF HasFreeFrame(f) THEN <<page_number>> \o f.frames
            ELSE <<page_number>> \o ListRemove(f.frames, page_to_evict)
  IN  [f EXCEPT !.frames = fr,
                !.queue = Append(IF HasFreeFrame(f) THEN @ ELSE Tail(@), page_number),
                !.timeline = Append(@, <<f.step, page_number, "Fault", fr, page_to_evict>>)]

\* mutant: the entries hold the frames list itself, not a copy of it
FIFO_fault_aliased_snapshot(s, page_number) ==
  LET f == [s EXCEPT !.page_faults = @ + 1]
      page_to_evict == IF HasFreeFrame(f) THEN None ELSE Head(f.queue)
      fr == IF HasFreeFrame(f) THEN Append(f.frames, page_number)
            ELSE Append(ListRemove(f.frames, page_to_evict), page_number)
      tl == Append(f.timeline, <<f.step, page_number, "Fault", fr, page_to_evict>>)
  IN  [f EXCEPT !.frames = fr,
                !.queue = Append(IF HasFreeFrame(f) THEN @ ELSE Tail(@), page_number),
                !.timeline = [k \in DOMAIN tl |-> [tl[k] EXCEPT ![4] = fr]]]

\* the fault branch
FIFO_fault(s, page_number) ==
  LET f == [s EXCEPT !.page_faults = @ + 1]
  IN  IF HasFreeFrame(f)
      THEN LET fr == Append(f.frames, page_number)
           IN  [f EXCEPT !.frames = fr, !.queue = Append(@, page_number),
                         !.timeline = Append(@, <<f.step, page_number, "Fault", fr, None>>)]
      ELSE IF f.queue = <<>> THEN Raise(f, "IndexError")
      ELSE LET page_to_evict == Head(f.queue)
               popped == [f EXCEPT !.queue = Tail(@)]
           IN  IF ~In(page_to_evict, f.frames) THEN Raise(popped, "ValueError")
               ELSE LET fr == Append(ListRemove(f.frames, page_to_evict), page_number)
                    IN  [popped EXCEPT !.frames = fr, !.queue = Append(@, page_number),
                                       !.timeline = Append(@, <<f.step, page_number, "Fault", fr, page_to_evict>>)]

FIFO_process_page_request(self, page_number, workload_future) ==
  LET s == [self EXCEPT !.step = @ + 1]
  IN  IF In(page_number, s.frames) THEN FIFO_hit(s, page_number)
      ELSE FIFO_fault(s, page_number)

\* -------------------------------------------------------------------- LRU
\* mutant: a hit leaves the list order alone
LRU_hit_no_move(s, page_number) ==
  [s EXCEPT !.page_hits = @ + 1,
            !.timeline = Append(@, <<s.step, page_number, "Hit", s.frames>>)]

\* the hit branch: the page moves to the end of the list
LRU_hit(s, page_number) ==
  LET fr == Append(ListRemove(s.frames, page_number), page_number)
  IN  [s EXCEPT !.page_hits = @ + 1, !.frames = fr,
                !.timeline = Append(@, <<s.step, page_number, "Hit", fr>>)]

\* mutant: the victim leaves the frames but the entry records None
LRU_fault_unlogged_victim(s, page_number) ==
  LET f == [s EXCEPT !.page_faults = @ + 1]
      fr == IF HasFreeFrame(f) THEN Append(f.frames, page_number)
            ELSE Append(Tail(f.frames), page_number)
  IN  [f EXCEPT !.frames = fr,
                !.timeline = Append(@, <<f.step, page_number, "Fault", fr, None>>)]

\* the fault branch
LRU_fault(s, page_number) ==
  LET f == [s EXCEPT !.page_faults = @ + 1]
  IN  IF HasFreeFrame(f)
      THEN LET fr == Append(f.frames, page_number)
           IN  [f EXCEPT !.frames = fr,
                         !.timeline = Append(@, <<f.step, page_number, "Fault", fr, None>>)]
      ELSE IF f.frames = <<>> THEN Raise(f, "IndexError")
      ELSE LET page_to_evict == Head(f.frames)
               fr == Append(Tail(f.frames), page_number)
           IN  [f EXCEPT !.frames = fr,
                         !.timeline = Append(@, <<f.step, page_number, "Fault", fr, page_to_evict>>)]

LRU_process_page_request(self, page_number, workload_future) ==
  LET s == [self EXCEPT !.step = @ + 1]
  IN  IF In(page_number, s.frames) THEN LRU_hit(s, page_number)
      ELSE LRU_fault(s, page_number)

\* ---------------------------------------------------------------- Optimal
\* mutant: min instead of max over next_use
Optimal_find_soonest_used_page(frames, future_workload) ==
  LET absent == {j \in DOMAIN frames : ~In(frames[j], future_workload)}
  IN  IF absent # {}
      THEN frames[CHOOSE j \in absent : \A k \in absent : j <= k]
      ELSE IF frames = <<>> THEN None
      ELSE LET next_use(j) == ListIndex(future_workload, frames[j])
           IN  frames[CHOOSE j \in DOMAIN frames :
                        \A k \in DOMAIN frames : next_use(j) <= next_use(k)]

\* mutant: the page in the first frame is the victim
Optimal_find_first_frame(frames, future_workload) ==
  IF frames = <<>> THEN None ELSE frames[1]

\* _find_furthest_used_page: None stands for max() of an empty dict, which
\* raises ValueError
Optimal_find_furthest_used_page(frames, future_workload) ==
  LET absent == {j \in DOMAIN frames : ~In(frames[j], future_workload)}
  IN  IF absent # {}
      THEN frames[CHOOSE j \in absent : \A k \in absent : j <= k]
      ELSE IF frames = <<>> THEN None
      ELSE LET next_use(j) == ListIndex(future_workload, frames[j])
           IN  frames[CHOOSE j \in DOMAIN frames :
                        \A k \in DOMAIN frames :
                           \/ next_use(k) < next_use(j)
                           \/ next_use(k) = next_use(j) /\ j <= k]

\* mutant: the fault counter is bumped before the hit test
Optimal_hit_counts_fault(s, page_number) ==
  [s EXCEPT !.page_hits = @ + 1, !.page_faults = @ + 1,
            !.timeline = Append(@, <<s.step, page_number, "Hit", s.frames>>)]

\* mutant: a hit moves the page to the end of the frame list
Optimal_hit_move_to_end(s, page_number) ==
  LET fr == Append(ListRemove(s.frames, page_number), page_number)
  IN  [s EXCEPT !.page_hits = @ + 1, !.frames = fr,
                !.timeline = Append(@, <<s.step, page_number, "Hit", fr>>)]

Optimal_hit(s, page_number) ==
  [s EXCEPT !.page_hits = @ + 1,
            !.timeline = Append(@, <<s.step, page_number, "Hit", s.frames>>)]

Optimal_fault(s, page_number, workload_future) ==
  LET f == [s EXCEPT !.page_faults = @ + 1]
  IN  IF HasFreeFrame(f)
      THEN LET fr == Append(f.frames, page_number)
           IN  [f EXCEPT !.frames = fr,
                         !.timeline = Append(@, <<f.step, page_number, "Fault", fr, None>>)]
      ELSE LET page_to_evict == Optimal_find_furthest_used_page(f.frames, workload_future)
           IN  IF f.frames = <<>> THEN Raise(f, "ValueError")
               ELSE LET fr == Append(ListRemove(f.frames, page_to_evict), page_number)
                    IN  [f EXCEPT !.frames = fr,
                                  !.timeline = Append(@, <<f.step, page_number, "Fault", fr, page_to_evict>>)]

Optimal_process_page_request(self, page_number, workload_future) ==
  LET s == [self EXCEPT !.step = @ + 1]
  IN  IF In(page_number, s.frames) THEN Optimal_hit(s, page_number)
      ELSE Optimal_fault(s, page_number, workload_future)

\* ------------------------------------------------------------------ MGLRU
\* _log_generation_sizes
MGLRU_log_generation_sizes(s) ==
  LET gen_sizes == [g \in DOMAIN s.generations |-> Len(s.generations[g])]
  IN  [s EXCEPT !.generation_log = Append(@, <<s.step>> \o gen_sizes)]

\* mutant: the scan runs upwards from generation 0
MGLRU_age_source_lowest(self) ==
  LET found == {g \in 0..(self.num_generations - 2) : self.generations[g + 1] # <<>>}
  IN  IF found = {} THEN None
      ELSE CHOOSE g \in found : \A h \in found : g <= h

\* the generation _age_pages takes a page from: the first non-empty one in
\* the scan num_generations - 2, ..., 0 (0-based), or None
MGLRU_age_source(self) ==
  LET found == {g \in 0..(self.num_generations - 2) : self.generations[g + 1] # <<>>}
  IN  IF found = {} THEN None
      ELSE CHOOSE g \in found : \A h \in found : h <= g

\* mutant: the whole generation ages, not only its head
MGLRU_age_pages_whole_generation(self) ==
  LET i == MGLRU_age_source(self)
  IN  IF i = None THEN self
      ELSE LET aged == self.generations[i + 1]
               next_gen == i + 1
           IN  [self EXCEPT !.generations = [@ EXCEPT ![i + 1] = <<>>,
                                                      ![next_gen + 1] = @ \o aged],
                            !.page_map = [j \in DOMAIN @ |->
                                            IF In(@[j][1], aged) THEN <<@[j][1], next_gen>>
                                            ELSE @[j]]]

\* mutant: the aged page's page_map entry is not updated
MGLRU_age_pages_stale_map(self) ==
  LET i == MGLRU_age_source(self)
  IN  IF i = None THEN self
      ELSE LET page_to_age == Head(self.generations[i + 1])
               next_gen == i + 1
           IN  [self EXCEPT !.generations = [@ EXCEPT ![i + 1] = Tail(@),
                                                      ![next_gen + 1] = Append(@, page_to_age)]]

\* _age_pages
MGLRU_age_pages(self) ==
  LET i == MGLRU_age_source(self)
  IN  IF i = None THEN self
      ELSE LET page_to_age == Head(self.generations[i + 1])
               next_gen == i + 1
           IN  [self EXCEPT !.generations = [@ EXCEPT ![i + 1] = Tail(@),
                                                      ![next_gen + 1] = Append(@, page_to_age)],
                            !.page_map = DictSet(@, page_to_age, next_gen)]

\* the head of process_page_request: step, tick and aging
MGLRU_tick(self) ==
  LET s == [self EXCEPT !.step = @ + 1, !.age_tick_counter = @ + 1]
  IN  IF s.age_tick_counter >= s.aging_threshold
      THEN [MGLRU_age_pages(s) EXCEPT !.age_tick_counter = 0]
      ELSE s

\* mutant: a hit moves the page to the tail of generation 0 in every case
MGLRU_hit_always_requeue(s, page_number) ==
  LET h == [s EXCEPT !.page_hits = @ + 1]
      current_gen == DictGet(h.page_map, page_number)
      m == [h EXCEPT !.generations =
                       [[@ EXCEPT ![current_gen + 1] = ListRemove(@, page_number)]
                          EXCEPT ![1] = Append(@, page_number)],
                     !.page_map = DictSet(@, page_number, 0)]
      current_frames == DictKeys(m.page_map)
  IN  MGLRU_log_generation_sizes(
        [m EXCEPT !.timeline = Append(@, <<m.step, page_number, "Hit", current_frames>>)])

\* the hit branch
MGLRU_hit(s, page_number) ==
  LET h == [s EXCEPT !.page_hits = @ + 1]
      current_gen == DictGet(h.page_map, page_number)
      moved ==
        IF current_gen = 0 THEN h
        ELSE IF ~In(page_number, h.generations[current_gen + 1]) THEN Raise(h, "ValueError")
        ELSE [h EXCEPT !.generations = [@ EXCEPT ![current_gen + 1] = ListRemove(@, page_number),
                                                 ![1] = Append(@, page_number)]]
  IN  IF moved.err # "" THEN moved
      ELSE LET m == [moved EXCEPT !.page_map = DictSet(@, page_number, 0)]
               current_frames == DictKeys(m.page_map)
           IN  MGLRU_log_generation_sizes(
                 [m EXCEPT !.timeline = Append(@, <<m.step, page_number, "Hit", current_frames>>)])

\* mutant: the victim scan stops before generation 0
MGLRU_victim_generation_skip0(f) ==
  LET found == {g \in 1..(f.num_generations - 1) : f.generations[g + 1] # <<>>}
  IN  IF found = {} THEN None
      ELSE CHOOSE g \in found : \A h \in found : h <= g

\* the generation a victim is taken from: the first non-empty one in the
\* scan num_generations - 1, ..., 0 (0-based), or None
MGLRU_victim_generation(f) ==
  LET found == {g \in 0..(f.num_generations - 1) : f.generations[g + 1] # <<>>}
  IN  IF found = {} THEN None
      ELSE CHOOSE g \in found : \A h \in found : h <= g

\* mutant: the victim is the newest page of its generation
MGLRU_evict_newest(f) ==
  IF f.current_page_count = f.num_frames
  THEN LET i == MGLRU_victim_generation(f)
       IN  IF i = None THEN [state |-> f, page_to_evict |-> None]
           ELSE LET gen == f.generations[i + 1]
                    victim == gen[Len(gen)]
                    popped == [f EXCEPT !.generations =
                                          [@ EXCEPT ![i + 1] = SubSeq(gen, 1, Len(gen) - 1)]]
                IN  [state |-> [popped EXCEPT !.page_map = DictDel(@, victim),
                                              !.current_page_count = @ - 1],
                     page_to_evict |-> victim]
  ELSE [state |-> f, page_to_evict |-> None]

\* the eviction block of the fault branch: the state after it and
\* page_to_evict
MGLRU_evict(f) ==
  IF f.current_page_count = f.num_frames
  THEN LET i == MGLRU_victim_generation(f)
       IN  IF i = None THEN [state |-> f, page_to_evict |-> None]
           ELSE LET victim == Head(f.generations[i + 1])
                    popped == [f EXCEPT !.generations = [@ EXCEPT ![i + 1] = Tail(@)]]
                IN  IF ~DictHas(f.page_map, victim)
                    THEN [state |-> Raise(popped, "KeyError"), page_to_evict |-> victim]
                    ELSE [state |-> [popped EXCEPT !.page_map = DictDel(@, victim),
                                                   !.current_page_count = @ - 1],
                          page_to_evict |-> victim]
  ELSE [state |-> f, page_to_evict |-> None]

\* the fault branch
MGLRU_fault(s, page_number) ==
  LET ev == MGLRU_evict([s EXCEPT !.page_faults = @ + 1])
      e == ev.state
  IN  IF e.err # "" THEN e
      ELSE IF e.num_generations < 1 THEN Raise(e, "IndexError")
      ELSE LET n == [e EXCEPT !.generations = [@ EXCEPT ![1] = Append(@, page_number)],
                              !.page_map = DictSet(@, page_number, 0),
                              !.current_page_count = @ + 1]
               current_frames == DictKeys(n.page_map)
           IN  MGLRU_log_generation_sizes(
                 [n EXCEPT !.timeline = Append(@, <<n.step, page_number, "Fault",
                                                    current_frames, ev.page_to_evict>>)])

MGLRU_process_page_request(self, page_number, workload_future) ==
  LET s == MGLRU_tick(self)
  IN  IF DictHas(s.page_map, page_number) THEN MGLRU_hit(s, page_number)
      ELSE MGLRU_fault(s, page_number)

\* ------------------------------------------------------ common operations
\* algo.process_page_request(page_number, workload_future), by class
process_page_request(self, page_number, workload_future) ==
  CASE self.kind = "FIFO" -> FIFO_process_page_request(self, page_number, workload_future)
    [] self.kind = "LRU" -> LRU_process_page_request(self, page_number, workload_future)
    [] self.kind = "Optimal" -> Optimal_process_page_request(self, page_number, workload_future)
    [] self.kind = "MGLRU" -> MGLRU_process_page_request(self, page_number, workload_future)

\* A ratio x / y is the pair <<x, y>>; dividing by zero raises
\* ZeroDivisionError, which stands here as the value of the ratio.
ZeroDivisionError == <<0, 0>>

Div(x, y) == IF y = 0 THEN ZeroDivisionError ELSE <<x, y>>

\* the int 0 of the else branch, as a ratio
Zero == <<0, 1>>

\* mutant: the division is not guarded
Ratio_unguarded(count, total) == Div(count, total)

\* (count / total) if total > 0 else 0
Ratio(count, total) == IF total > 0 THEN Div(count, total) ELSE Zero

\* f"{r:.2%}" as the number of hundredths of a percent it prints, rounded
\* half to even as float formatting does; -1 for a ratio that was not computed
Percent(r) ==
  IF r = ZeroDivisionError THEN -1
  ELSE LET q == (r[1] * 10000) \div r[2]
           rem == (r[1] * 10000) % r[2]
       IN  IF 2 * rem > r[2] THEN q + 1
           ELSE IF 2 * rem < r[2] THEN q
           ELSE IF q % 2 = 0 THEN q ELSE q + 1

\* PageReplacementAlgorithm.get_stats
get_stats(self) ==
  LET total_requests == self.page_hits + self.page_faults
      hit_ratio_raw == Ratio(self.page_hits, total_requests)
      miss_ratio_raw == Ratio(self.page_faults, total_requests)
  IN  [TotalRequests |-> total_requests,
       PageFaults |-> self.page_faults,
       PageHits |-> self.page_hits,
       HitRatio |-> Percent(hit_ratio_raw),
       MissRatio |-> Percent(miss_ratio_raw),
       HitRatioRaw |-> hit_ratio_raw,
       MissRatioRaw |-> miss_ratio_raw]

\* mutant: reading the statistics resets the counters
get_stats_self_reset(self) == [self EXCEPT !.page_hits = 0, !.page_faults = 0]

\* the policy object after a get_stats call: the method assigns to no field
get_stats_self(self) == self

\* no get_stats result yet
NoStats == [TotalRequests |-> -1, PageFaults |-> -1, PageHits |-> -1]

\* ------------------------------------------------------- MetricsCollector
MetricsCollector_init == [hits |-> 0, faults |-> 0, total_requests |-> 0, timeline |-> <<>>]

record_hit(m, step, page, frames) ==
  [m EXCEPT !.hits = @ + 1, !.total_requests = @ + 1,
            !.timeline = Append(@, <<step, page, FALSE, frames>>)]

record_fault(m, step, page, frames) ==
  [m EXCEPT !.faults = @ + 1, !.total_requests = @ + 1,
            !.timeline = Append(@, <<step, page, TRUE, frames>>)]

MetricsCollector_get_stats(m) ==
  LET hit_ratio == Ratio(m.hits, m.total_requests)
      miss_ratio == Ratio(m.faults, m.total_requests)
  IN  [TotalRequests |-> m.total_requests,
       PageFaults |-> m.faults,
       PageHits |-> m.hits,
       HitRatio |-> hit_ratio,
       MissRatio |-> miss_ratio]

\* the arguments of a call: the page, whether workload_future is given, and
\* its value (the empty list when it is left to its default)
CallArgs(page_number, given, workload_future) ==
  [page_number |-> page_number, given |-> given, workload_future |-> workload_future]

\* no call yet
NoCall == CallArgs(None, FALSE, <<>>)

\* ------------------------------------------------------------------ state
VARIABLES
  pc,        \* position of the single-process run: start, loop, done, raised
  args,      \* the constructor call: class, num_frames, num_generations, aging_threshold
  workload,  \* the page requests given to run_single_process
  i,         \* loop index of run_single_process (0-based)
  algo,      \* algorithm_instance
  metrics,   \* the MetricsCollector of run_single_process
  result,    \* what the last algo.get_stats() call after the run returned
  collected, \* what metrics.get_stats() returned
  mpc,       \* position of the multi-process run: start, split, loop, done, raised
  alloc_strategy, \* fixed or global
  margs,     \* alg_class, total_frames, num_processes
  mworkload, \* the (pid, page) requests given to the allocation simulation
  warned,    \* the "Allocating 1 frame per process" warning was printed
  global_sim, \* the one instance of run_global_allocation_sim
  frames_per_process,
  simulators,
  process_workloads,
  process_workloads_future,
  process_step,
  n,         \* position of the routing loop in mworkload (0-based)
  total_stats,
  compare,   \* min_frames, max_frames and the two loop variables of the sweep
  attempts,  \* the (alg_name, num_frames) combinations entered so far, in order
  results_data,
  caught,    \* the exceptions the sweep caught, one per failed combination
  last_call  \* the arguments of the last process_page_request call of a driver

singleVars == <<pc, args, workload, i, algo, metrics, result, collected>>
fixedVars == <<mpc, alloc_strategy, margs, mworkload, warned, global_sim, frames_per_process,
               simulators, process_workloads, process_workloads_future, process_step, n,
               total_stats>>
sweepVars == <<compare, attempts, results_data, caught>>
vars == <<pc, args, workload, i, algo, metrics, result, collected, mpc, alloc_strategy, margs, mworkload,
          warned, global_sim, frames_per_process, simulators, process_workloads,
          process_workloads_future, process_step, n, total_stats, compare, attempts,
          results_data, caught, last_call>>

AlgNames == {"FIFO", "LRU", "Optimal", "MGLRU"}

\* finite sequences over S of length at most len
SeqUpTo(S, len) == UNION {[1..k -> S] : k \in 0..len}

\* the constructor calls considered
Configs ==
  [alg : {"FIFO", "LRU", "Optimal"}, num_frames : (-1)..MaxFrames,
   num_generations : {DefaultNumGenerations}, aging_threshold : {DefaultAgingThreshold}]
  \cup [alg : {"MGLRU"}, num_frames : (-1)..MaxFrames,
        num_generations : 1..MaxGens, aging_threshold : 1..MaxThreshold]

\* alg_class(...) for a constructor call
Instantiate(a) ==
  IF a.alg = "MGLRU" THEN MGLRU_init(a.num_frames, a.num_generations, a.aging_threshold)
  ELSE Base_init(a.alg, a.num_frames)

SingleIdle ==
  /\ pc = "idle" /\ args = [alg |-> "FIFO", num_frames |-> 1,
                            num_generations |-> DefaultNumGenerations,
                            aging_threshold |-> DefaultAgingThreshold]
  /\ workload = <<>> /\ i = 0 /\ algo = NoAlgo /\ metrics = MetricsCollector_init
  /\ result = NoStats /\ collected = NoStats

FixedIdle ==
  /\ mpc = "idle" /\ margs = [alg_class |-> "FIFO", total_frames |-> 1, num_processes |-> 1]
  /\ alloc_strategy = "fixed" /\ warned = FALSE /\ global_sim = NoAlgo
  /\ mworkload = <<>> /\ frames_per_process = 0 /\ simulators = <<>>
  /\ process_workloads = <<>> /\ process_workloads_future = <<>>
  /\ process_step = <<>> /\ n = 0
  /\ total_stats = [TotalRequests |-> 0, PageFaults |-> 0, PageHits |-> 0]

SweepIdle ==
  /\ compare = [min_frames |-> 1, max_frames |-> 1, alg |-> 1, num_frames |-> 1]
  /\ attempts = <<>>
  /\ results_data = <<>> /\ caught = <<>>

\* ------------------------------------------- single-process run (driver)
Init ==
  /\ pc = "start"
  /\ args \in Configs
  /\ workload \in SeqUpTo(Pages, MaxLen)
  /\ i = 0
  /\ algo = NoAlgo
  /\ metrics = MetricsCollector_init
  /\ result = NoStats /\ collected = NoStats
  /\ FixedIdle
  /\ SweepIdle
  /\ last_call = NoCall

\* The policy is constructed and run_single_process is entered; a
\* constructor that raises leaves no instance.
Construct ==
  /\ pc = "start"
  /\ LET inst == Instantiate(args)
     IN  IF inst.err # ""
         THEN pc' = "raised" /\ algo' = NoAlgo
         ELSE pc' = "loop" /\ algo' = inst
  /\ metrics' = MetricsCollector_init
  /\ UNCHANGED <<args, workload, i>>
  /\ UNCHANGED <<result, collected, fixedVars, sweepVars>>
  /\ UNCHANGED last_call

\* isinstance(algo, alg_module.Optimal)
is_optimal(a) == a.kind = "Optimal"

\* the arguments of the hit branch: Optimal gets [], the others no future
HitArgs(a, page_number) == CallArgs(page_number, is_optimal(a), <<>>)

\* mutant: the future starts at the current request
FaultArgs_from_current(a, page_number, wl, idx) ==
  CallArgs(page_number, is_optimal(a), IF is_optimal(a) THEN Slice(wl, idx) ELSE <<>>)

\* the arguments of the fault branch: Optimal gets workload[i+1:], the
\* others no future
FaultArgs(a, page_number, wl, idx) ==
  CallArgs(page_number, is_optimal(a), IF is_optimal(a) THEN Slice(wl, idx + 1) ELSE <<>>)

\* the call of the hit branch
HitCall(a, page_number) ==
  process_page_request(a, page_number, HitArgs(a, page_number).workload_future)

\* the call of the fault branch
FaultCall(a, page_number, wl, idx) ==
  process_page_request(a, page_number, FaultArgs(a, page_number, wl, idx).workload_future)

\* one iteration of the loop, the branch `page_number in algo.frames`
LoopHit ==
  /\ pc = "loop" /\ i < Len(workload)
  /\ LET page_number == workload[i + 1]
         step == i + 1
     IN  /\ In(page_number, algo.frames)
         /\ algo' = HitCall(algo, page_number)
         /\ last_call' = HitArgs(algo, page_number)
         /\ IF algo'.err # ""
            THEN pc' = "raised" /\ UNCHANGED <<metrics, i>>
            ELSE /\ metrics' = record_hit(metrics, step, page_number, algo'.frames)
                 /\ i' = i + 1 /\ pc' = "loop"
  /\ UNCHANGED <<args, workload>>
  /\ UNCHANGED <<result, collected, fixedVars, sweepVars>>

\* one iteration of the loop, the else branch
LoopFault ==
  /\ pc = "loop" /\ i < Len(workload)
  /\ LET page_number == workload[i + 1]
         step == i + 1
     IN  /\ ~In(page_number, algo.frames)
         /\ algo' = FaultCall(algo, page_number, workload, i)
         /\ last_call' = FaultArgs(algo, page_number, workload, i)
         /\ IF algo'.err # ""
            THEN pc' = "raised" /\ UNCHANGED <<metrics, i>>
            ELSE /\ metrics' = record_fault(metrics, step, page_number, algo'.frames)
                 /\ i' = i + 1 /\ pc' = "loop"
  /\ UNCHANGED <<args, workload>>
  /\ UNCHANGED <<result, collected, fixedVars, sweepVars>>

\* the loop is exhausted: return metrics
Return ==
  /\ pc = "loop" /\ i = Len(workload)
  /\ pc' = "done"
  /\ UNCHANGED <<args, workload, i, algo, metrics>>
  /\ UNCHANGED <<result, collected, fixedVars, sweepVars>>
  /\ UNCHANGED last_call

Next == Construct \/ LoopHit \/ LoopFault \/ Return

Spec == Init /\ [][Next]_vars

\* --------------------------------- fixed allocation (run_fixed_allocation_sim)
\* if total_frames < num_processes: the warning branch
Underflow(total_frames, num_processes) == total_frames < num_processes

\* mutant: the share is the floor division in every case
FramesPerProcess_floor_only(total_frames, num_processes) == total_frames \div num_processes

\* mutant: an underflowing division yields two frames per process
FramesPerProcess_min_two(total_frames, num_processes) ==
  IF Underflow(total_frames, num_processes) THEN 2
  ELSE total_frames \div num_processes

\* the frame budget of every process; math.floor(total_frames / num_processes)
\* of two integers with a positive divisor is the floor division
FramesPerProcess(total_frames, num_processes) ==
  IF Underflow(total_frames, num_processes) THEN 1
  ELSE total_frames \div num_processes

\* the (pid, page) traces considered: pids 1..num_processes, as
\* generate_multiprocess_workload yields them
MPTraces(num_processes) == SeqUpTo((1..num_processes) \X (1..MaxMPPage), MaxMPLen)

\* process_workloads: for every pid of the trace, its pages in trace order
SplitWorkload(wl) ==
  [pid \in {wl[j][1] : j \in DOMAIN wl} |->
     LET own == SelectSeq(wl, LAMBDA r : r[1] = pid)
     IN  [j \in DOMAIN own |-> own[j][2]]]

\* process_workloads_future: filled for Optimal only; entry i (0-based) of a
\* pid is trace[i+1:]
SplitFuture(alg_class, pw) ==
  IF alg_class = "Optimal"
  THEN [pid \in DOMAIN pw |-> [k \in DOMAIN pw[pid] |-> Slice(pw[pid], k)]]
  ELSE <<>>

\* d[key] of a defaultdict whose missing entries read as dflt
DefaultGet(d, key, dflt) == IF key \in DOMAIN d THEN d[key] ELSE dflt

\* process_workloads_future[pid][step]
\* mutant: every process is given the future of process 1
FutureOf_first_tenant(pwf, pid, step) ==
  LET per_pid == DefaultGet(pwf, 1, <<>>)
  IN  DefaultGet(per_pid, step + 1, <<>>)

FutureOf(pwf, pid, step) ==
  LET per_pid == DefaultGet(pwf, pid, <<>>)
  IN  DefaultGet(per_pid, step + 1, <<>>)

\* process_step[pid] += 1
Bump(ps, pid) ==
  [q \in (DOMAIN ps) \cup {pid} |-> DefaultGet(ps, q, 0) + IF q = pid THEN 1 ELSE 0]

\* mutant: the aggregation loop assigns instead of accumulating
RECURSIVE AggregateStats_assign(_, _)
AggregateStats_assign(sims, acc) ==
  IF sims = <<>> THEN acc
  ELSE LET stats == get_stats(Head(sims))
       IN  AggregateStats_assign(Tail(sims),
             [TotalRequests |-> stats.TotalRequests,
              PageFaults |-> stats.PageFaults,
              PageHits |-> stats.PageHits])

\* the aggregation loop over simulators.items()
RECURSIVE AggregateStats(_, _)
AggregateStats(sims, acc) ==
  IF sims = <<>> THEN acc
  ELSE LET stats == get_stats(Head(sims))
       IN  AggregateStats(Tail(sims),
             [TotalRequests |-> acc.TotalRequests + stats.TotalRequests,
              PageFaults |-> acc.PageFaults + stats.PageFaults,
              PageHits |-> acc.PageHits + stats.PageHits])

ZeroStats == [TotalRequests |-> 0, PageFaults |-> 0, PageHits |-> 0]

\* the final ratios, recomputed from the sums and formatted
FinalRatios(total) ==
  LET hit_ratio == Ratio(total.PageHits, total.TotalRequests)
      miss_ratio == Ratio(total.PageFaults, total.TotalRequests)
  IN  [TotalRequests |-> total.TotalRequests,
       PageFaults |-> total.PageFaults,
       PageHits |-> total.PageHits,
       HitRatio |-> Percent(hit_ratio),
       MissRatio |-> Percent(miss_ratio)]

\* alg_class, total_frames and num_processes of a --multi run
MultiArgs ==
  [alg_class : AlgNames, total_frames : (-1)..MaxTotalFrames, num_processes : 1..MaxProcs]

InitFixed ==
  /\ SingleIdle
  /\ SweepIdle
  /\ alloc_strategy = "fixed" /\ warned = FALSE /\ global_sim = NoAlgo
  /\ mpc = "start"
  /\ margs \in MultiArgs
  /\ mworkload \in MPTraces(margs.num_processes)
  /\ frames_per_process = 0 /\ simulators = <<>>
  /\ process_workloads = <<>> /\ process_workloads_future = <<>>
  /\ process_step = <<>> /\ n = 0
  /\ total_stats = ZeroStats
  /\ last_call = NoCall

\* the frame budget and one policy instance per process
FixedAllocate ==
  /\ mpc = "start" /\ alloc_strategy = "fixed"
  /\ LET fpp == FramesPerProcess(margs.total_frames, margs.num_processes)
         sims == [pid \in 1..margs.num_processes |-> NewPolicy(margs.alg_class, fpp)]
     IN  /\ frames_per_process' = fpp
         /\ warned' = Underflow(margs.total_frames, margs.num_processes)
         /\ IF \E pid \in DOMAIN sims : sims[pid].err # ""
            THEN mpc' = "raised" /\ UNCHANGED simulators
            ELSE mpc' = "split" /\ simulators' = sims
  /\ UNCHANGED <<margs, mworkload, process_workloads, process_workloads_future,
                 process_step, n, total_stats>>
  /\ UNCHANGED <<alloc_strategy, global_sim, singleVars, sweepVars>>
  /\ UNCHANGED last_call

\* the per-process workloads and, for Optimal, their futures
FixedSplit ==
  /\ mpc = "split" /\ alloc_strategy = "fixed"
  /\ process_workloads' = SplitWorkload(mworkload)
  /\ process_workloads_future' = SplitFuture(margs.alg_class, process_workloads')
  /\ mpc' = "loop"
  /\ UNCHANGED <<margs, mworkload, warned, frames_per_process, simulators, process_step, n,
                 total_stats>>
  /\ UNCHANGED <<alloc_strategy, global_sim, singleVars, sweepVars>>
  /\ UNCHANGED last_call

\* mutant: every request is served by the policy of process 1
FixedRoute_shared_sim ==
  /\ mpc = "loop" /\ alloc_strategy = "fixed" /\ n < Len(mworkload)
  /\ LET pid == mworkload[n + 1][1]
         page_num == mworkload[n + 1][2]
         sim == simulators[1]
         future == IF is_optimal(sim)
                   THEN FutureOf(process_workloads_future, pid,
                                 DefaultGet(process_step, pid, 0))
                   ELSE <<>>
         after == process_page_request(sim, page_num, future)
     IN  /\ simulators' = [simulators EXCEPT ![1] = after]
         /\ last_call' = CallArgs(page_num, TRUE, future)
         /\ IF after.err # ""
            THEN mpc' = "raised" /\ UNCHANGED <<process_step, n>>
            ELSE /\ process_step' = Bump(process_step, pid)
                 /\ n' = n + 1 /\ mpc' = "loop"
  /\ UNCHANGED <<margs, mworkload, warned, frames_per_process, process_workloads,
                 process_workloads_future, total_stats>>
  /\ UNCHANGED <<alloc_strategy, global_sim, singleVars, sweepVars>>

\* one iteration of the routing loop
FixedRoute ==
  /\ mpc = "loop" /\ alloc_strategy = "fixed" /\ n < Len(mworkload)
  /\ LET pid == mworkload[n + 1][1]
         page_num == mworkload[n + 1][2]
     IN  IF pid \notin DOMAIN simulators
         THEN mpc' = "raised" /\ UNCHANGED <<simulators, process_step, n, last_call>>
         ELSE LET sim == simulators[pid]
                  future == IF is_optimal(sim)
                            THEN FutureOf(process_workloads_future, pid,
                                          DefaultGet(process_step, pid, 0))
                            ELSE <<>>
                  after == process_page_request(sim, page_num, future)
              IN  /\ simulators' = [simulators EXCEPT ![pid] = after]
                  /\ last_call' = CallArgs(page_num, TRUE, future)
                  /\ IF after.err # ""
                     THEN mpc' = "raised" /\ UNCHANGED <<process_step, n>>
                     ELSE /\ process_step' = Bump(process_step, pid)
                          /\ n' = n + 1 /\ mpc' = "loop"
  /\ UNCHANGED <<margs, mworkload, warned, frames_per_process, process_workloads,
                 process_workloads_future, total_stats>>
  /\ UNCHANGED <<alloc_strategy, global_sim, singleVars, sweepVars>>

\* the statistics of all simulators are summed and returned
FixedAggregate ==
  /\ mpc = "loop" /\ alloc_strategy = "fixed" /\ n = Len(mworkload)
  /\ total_stats' = FinalRatios(AggregateStats(simulators, ZeroStats))
  /\ mpc' = "done"
  /\ UNCHANGED <<margs, mworkload, warned, frames_per_process, simulators,
                 process_workloads, process_workloads_future, process_step, n>>
  /\ UNCHANGED <<alloc_strategy, global_sim, singleVars, sweepVars>>
  /\ UNCHANGED last_call

NextFixed == FixedAllocate \/ FixedSplit \/ FixedRoute \/ FixedAggregate

SpecFixed == InitFixed /\ [][NextFixed]_vars

\* ------------------------------------------- global allocation (one pool)
InitGlobal ==
  /\ SingleIdle
  /\ SweepIdle
  /\ alloc_strategy = "global" /\ warned = FALSE /\ global_sim = NoAlgo
  /\ mpc = "start"
  /\ margs \in MultiArgs
  /\ mworkload \in MPTraces(margs.num_processes)
  /\ frames_per_process = 0 /\ simulators = <<>>
  /\ process_workloads = <<>> /\ process_workloads_future = <<>>
  /\ process_step = <<>> /\ n = 0
  /\ total_stats = ZeroStats
  /\ last_call = NoCall

\* mutant: the page number alone is the page
page_to_request_page_only(pid, page_num) == <<0, page_num>>

\* the "page" requested from the shared instance
page_to_request(pid, page_num) == <<pid, page_num>>

\* global_sim = alg_class(total_frames)
GlobalConstruct ==
  /\ mpc = "start" /\ alloc_strategy = "global"
  /\ LET sim == NewPolicy(margs.alg_class, margs.total_frames)
     IN  IF sim.err # ""
         THEN mpc' = "raised" /\ UNCHANGED global_sim
         ELSE mpc' = "loop" /\ global_sim' = sim
  /\ UNCHANGED <<alloc_strategy, margs, mworkload, warned, frames_per_process, simulators,
                 process_workloads, process_workloads_future, process_step, n, total_stats>>
  /\ UNCHANGED <<singleVars, sweepVars>>
  /\ UNCHANGED last_call

\* one iteration of the loop over the interleaved workload
GlobalRequest ==
  /\ mpc = "loop" /\ alloc_strategy = "global" /\ n < Len(mworkload)
  /\ LET pid == mworkload[n + 1][1]
         page_num == mworkload[n + 1][2]
         future_workload == IF is_optimal(global_sim)
                            THEN Slice(mworkload, n + 1)
                            ELSE <<>>
         after == process_page_request(global_sim, page_to_request(pid, page_num),
                                       future_workload)
     IN  /\ global_sim' = after
         /\ last_call' = CallArgs(page_to_request(pid, page_num), TRUE, future_workload)
         /\ IF after.err # ""
            THEN mpc' = "raised" /\ UNCHANGED n
            ELSE n' = n + 1 /\ mpc' = "loop"
  /\ UNCHANGED <<alloc_strategy, margs, mworkload, warned, frames_per_process, simulators,
                 process_workloads, process_workloads_future, process_step, total_stats>>
  /\ UNCHANGED <<singleVars, sweepVars>>

\* return global_sim.get_stats()
GlobalReturn ==
  /\ mpc = "loop" /\ alloc_strategy = "global" /\ n = Len(mworkload)
  /\ total_stats' = get_stats(global_sim)
  /\ mpc' = "done"
  /\ UNCHANGED <<alloc_strategy, margs, mworkload, warned, global_sim, frames_per_process,
                 simulators, process_workloads, process_workloads_future, process_step, n>>
  /\ UNCHANGED <<singleVars, sweepVars>>
  /\ UNCHANGED last_call

NextGlobal == GlobalConstruct \/ GlobalRequest \/ GlobalReturn

SpecGlobal == InitGlobal /\ [][NextGlobal]_vars

\* ------------------------------ MGLRU runs in which no page ages, and FIFO
\* constructor calls with one generation, or with a threshold no trace reaches
AgelessConfigs ==
  [alg : {"FIFO"}, num_frames : 1..MaxFrames,
   num_generations : {DefaultNumGenerations}, aging_threshold : {DefaultAgingThreshold}]
  \cup [alg : {"MGLRU"}, num_frames : 1..MaxFrames,
        num_generations : {1}, aging_threshold : 1..MaxThreshold]
  \cup [alg : {"MGLRU"}, num_frames : 1..MaxFrames,
        num_generations : 1..MaxGens, aging_threshold : {MaxLen + 1}]

InitAgeless ==
  /\ pc = "start"
  /\ args \in AgelessConfigs
  /\ workload \in SeqUpTo(Pages, MaxLen)
  /\ i = 0
  /\ algo = NoAlgo
  /\ metrics = MetricsCollector_init
  /\ result = NoStats /\ collected = NoStats
  /\ FixedIdle
  /\ SweepIdle
  /\ last_call = NoCall

SpecAgeless == InitAgeless /\ [][Next]_vars

\* ------------------------------ statistics read after short runs
MaxStatsLen == 2

InitStats ==
  \/ Init /\ Len(workload) <= MaxStatsLen
  \/ InitFixed /\ Len(mworkload) <= MaxStatsLen

\* algo.get_stats() and metrics.get_stats() after the run, called twice
GetStats ==
  /\ pc \in {"done", "stats"}
  /\ result' = get_stats(algo)
  /\ algo' = get_stats_self(algo)
  /\ collected' = MetricsCollector_get_stats(metrics)
  /\ pc' = IF pc = "done" THEN "stats" ELSE "again"
  /\ UNCHANGED <<args, workload, i, metrics>>
  /\ UNCHANGED <<fixedVars, sweepVars>>
  /\ UNCHANGED last_call

NextStats == Next \/ GetStats \/ NextFixed

SpecStats == InitStats /\ [][NextStats]_vars

\* ------------------------------ the --compare command: the sweep
MaxSweepLen == 2

alg_list == <<"FIFO", "LRU", "Optimal", "MGLRU">>

\* get_algorithm_instance: alg_class(num_frames)
get_algorithm_instance(alg_name, num_frames) == NewPolicy(alg_name, num_frames)

\* stats[key] = value on the MetricsCollector that run_single_process
\* returns: the class defines no __setitem__, the statement raises TypeError
MetricsCollector_setitem(m, key, value) == [obj |-> m, err |-> "TypeError"]

\* mutant: the handler catches ValueError only
except_ValueError(err) == err = "ValueError"

\* except Exception: every error raised in the try block is caught
except_Exception(err) == err \in {"ValueError", "TypeError", "IndexError", "KeyError"}

InitCompare ==
  /\ pc = "cmd"
  /\ args \in [alg : {"FIFO"}, num_frames : {1}, num_generations : {DefaultNumGenerations},
               aging_threshold : {DefaultAgingThreshold}]
  /\ workload \in SeqUpTo(Pages, MaxSweepLen)
  /\ i = 0 /\ algo = NoAlgo /\ metrics = MetricsCollector_init
  /\ result = NoStats /\ collected = NoStats
  /\ FixedIdle
  /\ \E lo \in 0..1, hi \in 0..MaxFrames :
       compare = [min_frames |-> lo, max_frames |-> hi, alg |-> 1, num_frames |-> lo]
  /\ attempts = <<>> /\ results_data = <<>> /\ caught = <<>>
  /\ last_call = NoCall

\* if not page_requests: return
CompareGuard ==
  /\ pc = "cmd"
  /\ pc' = IF workload = <<>> THEN "exited" ELSE "sweep"
  /\ UNCHANGED <<args, workload, i, algo, metrics, result, collected>>
  /\ UNCHANGED <<fixedVars, sweepVars>>
  /\ UNCHANGED last_call

\* the two for loops have a combination left
InRange == compare.alg <= Len(alg_list) /\ compare.min_frames <= compare.max_frames

\* pbar.update(1) and the step of the two for loops
Advance(c) ==
  IF c.num_frames + 1 <= c.max_frames
  THEN [c EXCEPT !.num_frames = @ + 1]
  ELSE [c EXCEPT !.alg = @ + 1, !.num_frames = c.min_frames]

\* the try block is entered for the next combination: the instance is built
\* and run_single_process is called
SweepEnter ==
  /\ pc = "sweep" /\ InRange
  /\ LET alg_name == alg_list[compare.alg]
         num_frames == compare.num_frames
         algo_instance == get_algorithm_instance(alg_name, num_frames)
     IN  /\ attempts' = Append(attempts, <<alg_name, num_frames>>)
         /\ IF algo_instance.err # ""
            THEN /\ IF except_Exception(algo_instance.err)
                    THEN /\ caught' = Append(caught, <<alg_name, num_frames, algo_instance.err>>)
                         /\ compare' = Advance(compare)
                         /\ pc' = "sweep"
                    ELSE pc' = "aborted" /\ UNCHANGED <<caught, compare>>
                 /\ UNCHANGED <<args, i, algo, metrics>>
            ELSE /\ algo' = algo_instance
                 /\ args' = [alg |-> alg_name, num_frames |-> num_frames,
                             num_generations |-> DefaultNumGenerations,
                             aging_threshold |-> DefaultAgingThreshold]
                 /\ metrics' = MetricsCollector_init
                 /\ i' = 0
                 /\ pc' = "loop"
                 /\ UNCHANGED <<caught, compare>>
  /\ UNCHANGED <<workload, result, collected, results_data, fixedVars>>
  /\ UNCHANGED last_call

\* run_single_process has returned or raised: the rest of the try block
\* and the handler
SweepCollect ==
  /\ pc \in {"done", "raised"}
  /\ LET alg_name == alg_list[compare.alg]
         num_frames == compare.num_frames
         stats == MetricsCollector_setitem(metrics, "Algorithm", alg_name)
         err == IF pc = "raised" THEN algo.err ELSE stats.err
     IN  IF err = ""
         THEN /\ results_data' = Append(results_data, stats.obj)
              /\ compare' = Advance(compare)
              /\ pc' = "sweep"
              /\ UNCHANGED caught
         ELSE IF except_Exception(err)
         THEN /\ caught' = Append(caught, <<alg_name, num_frames, err>>)
              /\ compare' = Advance(compare)
              /\ pc' = "sweep"
              /\ UNCHANGED results_data
         ELSE pc' = "aborted" /\ UNCHANGED <<caught, compare, results_data>>
  /\ UNCHANGED <<args, workload, i, algo, metrics, result, collected, attempts, fixedVars>>
  /\ UNCHANGED last_call

\* both loops are exhausted
SweepEnd ==
  /\ pc = "sweep" /\ ~InRange
  /\ pc' = "swept"
  /\ UNCHANGED <<args, workload, i, algo, metrics, result, collected>>
  /\ UNCHANGED <<fixedVars, sweepVars>>
  /\ UNCHANGED last_call

NextCompare ==
  CompareGuard \/ SweepEnter \/ LoopHit \/ LoopFault \/ Return \/ SweepCollect \/ SweepEnd

\* the command is sequential code that runs until it returns
SpecCompare == InitCompare /\ [][NextCompare]_vars /\ WF_vars(NextCompare)

\* ------------------------------ the --multi command: either strategy
InitMulti == InitFixed \/ InitGlobal

NextMulti == NextFixed \/ NextGlobal

SpecMulti == InitMulti /\ [][NextMulti]_vars

\* ------------------------------------------------- vocabulary of the claims
\* the resident pages of a policy: page_map for MGLRU, frames otherwise
Resident(a) ==
  IF a.kind = "MGLRU" THEN {a.page_map[j][1] : j \in DOMAIN a.page_map}
  ELSE {a.frames[j] : j \in DOMAIN a.frames}

ResidentCount(a) == IF a.kind = "MGLRU" THEN Len(a.page_map) ELSE Len(a.frames)

\* a request is about to be processed by the single-process run
Calling == pc = "loop" /\ i < Len(workload)

\* the page of that request
Requested == workload[i + 1]

LastEntry(a) == a.timeline[Len(a.timeline)]

\* the largest element of a non-empty set of integers
MaxOf(S) == CHOOSE x \in S : \A y \in S : y <= x

\* step of the last fault on page p in timeline tl (its insertion)
Arrival(tl, p) == MaxOf({tl[j][1] : j \in {k \in DOMAIN tl : tl[k][2] = p /\ tl[k][3] = "Fault"}})

\* step of the last request of page p in timeline tl (hit or fault)
LastTouch(tl, p) == MaxOf({tl[j][1] : j \in {k \in DOMAIN tl : tl[k][2] = p}})

\* position of the first occurrence of p in sequence f (p occurs in f)
FirstUse(f, p) == CHOOSE j \in DOMAIN f : f[j] = p /\ \A k \in DOMAIN f : f[k] = p => j <= k

\* sequence lst without its element at position j
Without(lst, j) == [k \in 1..(Len(lst) - 1) |-> IF k < j THEN lst[k] ELSE lst[k + 1]]

\* number of positions of generation deques of a that hold page p
Copies(a, p) ==
  Cardinality(UNION {{<<g, j>> : j \in {k \in DOMAIN a.generations[g] : a.generations[g][k] = p}} :
                       g \in DOMAIN a.generations})

RECURSIVE SumLen(_)
SumLen(gens) == IF gens = <<>> THEN 0 ELSE Len(Head(gens)) + SumLen(Tail(gens))

\* the evicted page a timeline entry reports: a Hit entry has four fields and
\* is read as "no eviction"
EvictedOf(entry) == IF Len(entry) = 4 THEN None ELSE entry[5]

\* the resident pages in the order a snapshot lists them
ResidentList(a) == IF a.kind = "MGLRU" THEN DictKeys(a.page_map) ELSE a.frames

\* ------------------------------------------------------------------ claims
\* C1: for every policy, every num_frames >= 1 and every request sequence the
\* number of resident pages (frames; page_map for MGLRU) is at most
\* num_frames after every process_page_request call.
FrameBound == algo.kind # "none" => ResidentCount(algo) <= algo.num_frames

\* a full MGLRU that has already evicted
FrameBoundWitness ==
  /\ algo.kind = "MGLRU" /\ ResidentCount(algo) = algo.num_frames
  /\ algo.page_faults > algo.num_frames

\* C2: every process_page_request call increments exactly one of page_hits
\* and page_faults by exactly 1, page_hits iff the requested page was
\* resident before the call; after the run page_hits + page_faults is the
\* length of the trace.
HitXorFault ==
  [][/\ Calling =>
          IF Requested \in Resident(algo)
          THEN algo'.page_hits = algo.page_hits + 1 /\ algo'.page_faults = algo.page_faults
          ELSE algo'.page_faults = algo.page_faults + 1 /\ algo'.page_hits = algo.page_hits
     /\ pc' = "done" => algo'.page_hits + algo'.page_faults = Len(workload')]_vars

HitXorFaultWitness ==
  /\ pc = "done" /\ algo.page_hits >= 1 /\ algo.page_faults >= 2
  /\ algo.page_hits + algo.page_faults = Len(workload)

\* C3: for every policy, MGLRU included, the hit and fault counts returned by
\* run_single_process equal the policy's own page_hits and page_faults
\* after the trace is consumed.
DriverCountsMatchPolicy ==
  pc = "done" => metrics.hits = algo.page_hits /\ metrics.faults = algo.page_faults

\* C4: FIFO: on a fault with full frames the victim is the resident page
\* inserted earliest, whatever hits it had since, and the new page is
\* appended last; frames=2 and trace [1,2,3,1] gives four faults, no hit,
\* page 1 evicted when 3 arrives, final frames [3,1].
FIFOVictimOrder ==
  [][/\ (Calling /\ algo.kind = "FIFO" /\ Requested \notin Resident(algo)
           /\ Len(algo.frames) = algo.num_frames) =>
          LET e == LastEntry(algo')
              v == e[5]
          IN  /\ e[3] = "Fault" /\ v \in Resident(algo)
              /\ \A q \in Resident(algo) : Arrival(algo.timeline, v) <= Arrival(algo.timeline, q)
              /\ Resident(algo') = (Resident(algo) \ {v}) \cup {Requested}
              /\ algo'.frames[Len(algo'.frames)] = Requested
              /\ \E j \in DOMAIN algo.frames :
                    algo.frames[j] = v /\ algo'.frames = Append(Without(algo.frames, j), Requested)
     /\ (pc' = "done" /\ algo'.kind = "FIFO" /\ algo'.num_frames = 2
           /\ workload' = <<1, 2, 3, 1>>) =>
          /\ algo'.page_faults = 4 /\ algo'.page_hits = 0
          /\ algo'.timeline[3][5] = 1 /\ algo'.frames = <<3, 1>>]_vars

\* FIFO has just evicted a page that was hit after it was inserted
FIFOVictimOrderWitness ==
  /\ algo.kind = "FIFO" /\ algo.timeline # <<>>
  /\ LET tl == algo.timeline
         e == LastEntry(algo)
     IN  /\ e[3] = "Fault" /\ e[5] # None
         /\ \E k \in DOMAIN tl :
               /\ tl[k][2] = e[5] /\ tl[k][3] = "Hit"
               /\ \A m \in DOMAIN tl : m > k => ~(tl[m][2] = e[5] /\ tl[m][3] = "Fault")

\* C5: LRU: a hit or an insertion moves the page to the last position, and on
\* a fault with full frames the victim is the resident page whose last touch
\* is oldest; frames=2 and trace [1,2,1,3] gives frames [1], [1,2], [2,1],
\* [1,3], page 2 evicted at the last request, hits=1, faults=3.
LRURecency ==
  [][/\ (Calling /\ algo.kind = "LRU") =>
          /\ algo'.frames # <<>> /\ algo'.frames[Len(algo'.frames)] = Requested
          /\ Requested \in Resident(algo) =>
                \E j \in DOMAIN algo.frames :
                   algo.frames[j] = Requested
                   /\ algo'.frames = Append(Without(algo.frames, j), Requested)
          /\ (Requested \notin Resident(algo) /\ Len(algo.frames) < algo.num_frames) =>
                algo'.frames = Append(algo.frames, Requested) /\ LastEntry(algo')[5] = None
          /\ (Requested \notin Resident(algo) /\ Len(algo.frames) = algo.num_frames) =>
                LET v == LastEntry(algo')[5]
                IN  /\ v \in Resident(algo)
                    /\ \A q \in Resident(algo) :
                          LastTouch(algo.timeline, v) <= LastTouch(algo.timeline, q)
                    /\ \E j \in DOMAIN algo.frames :
                          algo.frames[j] = v
                          /\ algo'.frames = Append(Without(algo.frames, j), Requested)
     /\ (pc' = "done" /\ algo'.kind = "LRU" /\ algo'.num_frames = 2
           /\ workload' = <<1, 2, 1, 3>>) =>
          /\ [k \in 1..4 |-> algo'.timeline[k][4]] = << <<1>>, <<1, 2>>, <<2, 1>>, <<1, 3>> >>
          /\ [k \in 1..4 |-> algo'.timeline[k][3]] = <<"Fault", "Fault", "Hit", "Fault">>
          /\ algo'.timeline[4][5] = 2
          /\ algo'.page_hits = 1 /\ algo'.page_faults = 3]_vars

\* LRU has just evicted a page that was not the earliest inserted resident
\* page: the earlier one was hit in between
LRURecencyWitness ==
  /\ algo.kind = "LRU" /\ Len(algo.timeline) >= 2
  /\ LET tl == algo.timeline
         e == LastEntry(algo)
         before == tl[Len(tl) - 1][4]
     IN  /\ e[3] = "Fault" /\ e[5] # None
         /\ \E q \in {before[j] : j \in DOMAIN before} :
               Arrival(SubSeq(tl, 1, Len(tl) - 1), q) < Arrival(SubSeq(tl, 1, Len(tl) - 1), e[5])

\* C6: Optimal: on a fault with full frames, if some resident page does not
\* occur in the future the victim is the first such page in frame-list
\* order; otherwise it is the resident page whose first occurrence in the
\* future has the largest index; frames=2, trace [1,2,3,1,2]: at the fault
\* for 3 with future [1,2] page 2 is evicted and frames become [1,3].
OptimalForesight ==
  [][/\ (Calling /\ algo.kind = "Optimal" /\ Requested \notin Resident(algo)
           /\ Len(algo.frames) = algo.num_frames) =>
          LET future == Slice(workload, i + 1)
              fr == algo.frames
              v == LastEntry(algo')[5]
              gone == {j \in DOMAIN fr : \A k \in DOMAIN future : future[k] # fr[j]}
          IN  /\ \E j \in DOMAIN fr :
                    fr[j] = v /\ algo'.frames = Append(Without(fr, j), Requested)
              /\ gone # {} => \E j \in gone : fr[j] = v /\ \A k \in gone : j <= k
              /\ gone = {} => \A q \in Resident(algo) : FirstUse(future, q) <= FirstUse(future, v)
     /\ (Calling /\ algo.kind = "Optimal" /\ algo.num_frames = 2
           /\ workload = <<1, 2, 3, 1, 2>> /\ i = 2) =>
          /\ algo.frames = <<1, 2>> /\ Slice(workload, i + 1) = <<1, 2>>
          /\ LastEntry(algo')[5] = 2 /\ algo'.frames = <<1, 3>>]_vars

\* Optimal has just evicted a page that occurs again in the future, while
\* every page resident before the request did
OptimalForesightWitness ==
  /\ algo.kind = "Optimal" /\ Len(algo.timeline) >= 2 /\ pc = "loop"
  /\ LET tl == algo.timeline
         e == LastEntry(algo)
         before == tl[Len(tl) - 1][4]
     IN  /\ e[3] = "Fault" /\ e[5] # None
         /\ \A j \in DOMAIN before : In(before[j], Slice(workload, i))

\* C7: MGLRU: on every fault with current_page_count = num_frames a victim
\* exists and exactly one page is evicted, the head of the highest-index
\* non-empty generation at the time of the selection (after the aging of
\* the same call); no state has full frames and only empty generations, and
\* the page count never exceeds num_frames.
MGLRUVictimExists ==
  [][/\ (Calling /\ algo.kind = "MGLRU" /\ Requested \notin Resident(algo)
           /\ algo.current_page_count = algo.num_frames) =>
          LET t == MGLRU_tick(algo)
              nonempty == {g \in DOMAIN t.generations : t.generations[g] # <<>>}
              v == LastEntry(algo')[5]
          IN  /\ nonempty # {}
              /\ v = Head(t.generations[MaxOf(nonempty)])
              /\ v \in Resident(algo) /\ v # Requested
              /\ Resident(algo') = (Resident(algo) \ {v}) \cup {Requested}
              /\ algo'.current_page_count = algo.num_frames
     /\ algo'.kind = "MGLRU" =>
          /\ algo'.current_page_count <= algo'.num_frames
          /\ algo'.current_page_count = algo'.num_frames =>
                \E g \in DOMAIN algo'.generations : algo'.generations[g] # <<>>]_vars

\* MGLRU has just evicted a page although generation 0 was not the only
\* non-empty generation before the request
MGLRUVictimExistsWitness ==
  /\ algo.kind = "MGLRU" /\ Len(algo.generation_log) >= 2
  /\ LET e == LastEntry(algo)
         sizes == algo.generation_log[Len(algo.generation_log) - 1]
     IN  /\ e[3] = "Fault" /\ e[5] # None
         /\ \E g \in 3..Len(sizes) : sizes[g] > 0

\* C8: MGLRU generation conservation: after every request every resident
\* page is in exactly one generation deque exactly once, page_map maps it to
\* that generation, page_map has no other keys, the generation sizes add up
\* to current_page_count <= num_frames, and there is one generation-log
\* entry per request, holding the sizes after it.
MGLRUConservation ==
  algo.kind = "MGLRU" =>
    /\ Cardinality(Resident(algo)) = Len(algo.page_map)
    /\ \A p \in Pages : Copies(algo, p) = IF p \in Resident(algo) THEN 1 ELSE 0
    /\ \A p \in Resident(algo) :
          /\ DictGet(algo.page_map, p) \in 0..(algo.num_generations - 1)
          /\ In(p, algo.generations[DictGet(algo.page_map, p) + 1])
    /\ SumLen(algo.generations) = algo.current_page_count
    /\ algo.current_page_count = Len(algo.page_map)
    /\ algo.current_page_count <= algo.num_frames
    /\ Len(algo.generation_log) = algo.step
    /\ algo.step > 0 =>
          algo.generation_log[algo.step] =
             <<algo.step>> \o [g \in DOMAIN algo.generations |-> Len(algo.generations[g])]

\* a full MGLRU with pages in at least two generations, one of them aged
MGLRUConservationWitness ==
  /\ algo.kind = "MGLRU" /\ algo.current_page_count = algo.num_frames
  /\ algo.generations[1] # <<>>
  /\ \E g \in 2..algo.num_generations : algo.generations[g] # <<>>

\* C9: constructing a policy with num_frames <= 0 raises and leaves no
\* instance; with num_frames >= 1 it yields an instance with empty frames
\* and zero counters, and no later process_page_request raises.
ConstructionContract ==
  /\ pc = "start" => algo = NoAlgo
  /\ (pc # "start" /\ args.num_frames <= 0) => pc = "raised" /\ algo = NoAlgo
  /\ (pc # "start" /\ args.num_frames >= 1) =>
        /\ pc \in {"loop", "done"}
        /\ algo.kind = args.alg /\ algo.num_frames = args.num_frames
        /\ algo.err = ""
        /\ algo.step = i
        /\ i = 0 => /\ algo.frames = <<>> /\ Resident(algo) = {}
                    /\ algo.page_hits = 0 /\ algo.page_faults = 0
                    /\ algo.timeline = <<>>

\* a construction with zero frames has raised
ConstructionContractWitness == pc = "raised" /\ args.num_frames = 0 /\ algo = NoAlgo

\* the pages process pid requests in trace wl, in order
SubTrace(wl, pid) ==
  LET own == SelectSeq(wl, LAMBDA r : r[1] = pid)
  IN  [j \in DOMAIN own |-> own[j][2]]

\* policy a after the requests trace[k..], each with the rest of the trace as
\* its future
RECURSIVE RunFrom(_, _, _)
RunFrom(a, trace, k) ==
  IF k > Len(trace) THEN a
  ELSE RunFrom(process_page_request(a, trace[k], Slice(trace, k)), trace, k + 1)

\* a fresh policy run standalone on process pid's requests
Standalone(pid) ==
  RunFrom(NewPolicy(margs.alg_class, frames_per_process), SubTrace(mworkload, pid), 1)

RECURSIVE SumTo(_, _)
SumTo(F(_), k) == IF k = 0 THEN 0 ELSE F(k) + SumTo(F, k - 1)

\* C10: the totals returned by run_fixed_allocation_sim equal the sums over
\* the processes of the hits, faults and request counts of a fresh policy of
\* frames_per_process frames run standalone on that process's requests.
FixedAggregation ==
  mpc = "done" =>
    LET hits(pid) == Standalone(pid).page_hits
        faults(pid) == Standalone(pid).page_faults
        reqs(pid) == Len(SubTrace(mworkload, pid))
    IN  /\ total_stats.PageHits = SumTo(hits, margs.num_processes)
        /\ total_stats.PageFaults = SumTo(faults, margs.num_processes)
        /\ total_stats.TotalRequests = SumTo(reqs, margs.num_processes)

\* a finished run of several processes, every one with a fault and one with
\* a hit
FixedAggregationWitness ==
  /\ mpc = "done" /\ margs.num_processes >= 2
  /\ \A pid \in DOMAIN simulators : simulators[pid].page_faults >= 1
  /\ total_stats.PageHits >= 1
  /\ total_stats.TotalRequests = Len(mworkload)

\* C11: fixed allocation gives every process the same budget:
\* floor(total_frames / num_processes) when total_frames >= num_processes,
\* and exactly 1, with a warning and no error, when total_frames <
\* num_processes; the budget is always at least 1.
FixedBudget ==
  (alloc_strategy = "fixed" /\ mpc # "start") =>
    /\ mpc # "raised"
    /\ frames_per_process >= 1
    /\ DOMAIN simulators = 1..margs.num_processes
    /\ \A pid \in DOMAIN simulators : simulators[pid].num_frames = frames_per_process
    /\ IF margs.total_frames >= margs.num_processes
       THEN /\ frames_per_process * margs.num_processes <= margs.total_frames
            /\ margs.total_frames < (frames_per_process + 1) * margs.num_processes
            /\ ~warned
       ELSE frames_per_process = 1 /\ warned

\* a finished run with fewer frames than processes
FixedBudgetWitness ==
  /\ alloc_strategy = "fixed" /\ mpc = "done" /\ n >= 2
  /\ margs.total_frames >= 1 /\ margs.total_frames < margs.num_processes
  /\ warned /\ frames_per_process = 1

\* C12: global allocation uses one policy instance of capacity total_frames,
\* fed the trace in its original order with the pair (tenant, page) as page
\* identity: a request (t, p) is a hit iff that exact pair is resident, and
\* the resident pages of all tenants together never exceed total_frames.
GlobalSharing ==
  [][(alloc_strategy = "global" /\ mpc = "loop" /\ n < Len(mworkload)) =>
       LET req == mworkload[n + 1]
           tl == global_sim'.timeline
       IN  /\ simulators' = <<>>
           /\ global_sim.num_frames = margs.total_frames
           /\ global_sim'.num_frames = margs.total_frames
           /\ (global_sim'.page_hits = global_sim.page_hits + 1) <=> (req \in Resident(global_sim))
           /\ (global_sim'.page_faults = global_sim.page_faults + 1) <=> (req \notin Resident(global_sim))
           /\ global_sim'.page_hits + global_sim'.page_faults = n + 1
           /\ req \in Resident(global_sim')
           /\ ResidentCount(global_sim') <= margs.total_frames
           /\ Len(tl) = n + 1
           /\ \A k \in DOMAIN tl : tl[k][1] = k /\ tl[k][2] = mworkload[k]]_vars

\* tenant 2 faults on a page number that tenant 1 holds, after a hit of tenant 1
GlobalSharingWitness ==
  /\ alloc_strategy = "global" /\ mpc = "loop" /\ n = 3
  /\ global_sim.page_hits = 1 /\ global_sim.page_faults = 2
  /\ \E p \in 1..MaxMPPage :
       /\ mworkload[3] = <<2, p>> /\ LastEntry(global_sim)[3] = "Fault"
       /\ {<<1, p>>, <<2, p>>} \subseteq Resident(global_sim)

\* C13: an eviction happens exactly on a fault that finds the frame set full:
\* then the entry's evicted page was resident before the call, is not
\* resident after it and differs from the requested page; on a hit and on a
\* fault with free frames no page leaves the resident set and the entry's
\* evicted page is None.
EvictionOnFullFault ==
  [][(Calling /\ algo'.err = "") =>
       LET e == LastEntry(algo')
           full_fault == /\ Requested \notin Resident(algo)
                         /\ ResidentCount(algo) = algo.num_frames
       IN  IF full_fault
           THEN /\ EvictedOf(e) # None
                /\ EvictedOf(e) \in Resident(algo)
                /\ EvictedOf(e) \notin Resident(algo')
                /\ EvictedOf(e) # Requested
                /\ Resident(algo') = (Resident(algo) \ {EvictedOf(e)}) \cup {Requested}
           ELSE /\ Resident(algo) \subseteq Resident(algo')
                /\ EvictedOf(e) = None]_vars

\* a run that has seen a hit, a fault with a free frame and a fault with eviction
EvictionOnFullFaultWitness ==
  /\ pc = "loop" /\ algo.err = "" /\ algo.num_frames = 2
  /\ \E h, f, v \in DOMAIN algo.timeline :
       /\ algo.timeline[h][3] = "Hit" /\ EvictedOf(algo.timeline[h]) = None
       /\ algo.timeline[f][3] = "Fault" /\ EvictedOf(algo.timeline[f]) = None
       /\ v = Len(algo.timeline) /\ h < v
       /\ EvictedOf(algo.timeline[v]) # None
       /\ EvictedOf(algo.timeline[v]) \notin Resident(algo)

\* C14: after k requests the timeline holds exactly k entries, the i-th entry
\* has step i and the i-th requested page, its frame snapshot is the resident
\* pages right after that request, and recording a later request never
\* changes an earlier entry.
TimelineRecording ==
  [][(Calling /\ algo'.err = "") =>
       LET tl == algo'.timeline
           e == LastEntry(algo')
       IN  /\ Len(algo.timeline) = i
           /\ Len(tl) = i + 1
           /\ SubSeq(tl, 1, i) = algo.timeline
           /\ e[1] = i + 1 /\ e[2] = Requested
           /\ e[4] = ResidentList(algo')
           /\ \A k \in DOMAIN tl : tl[k][1] = k /\ tl[k][2] = workload[k]]_vars

\* two evictions are recorded, with different snapshots, in a run of four requests
TimelineRecordingWitness ==
  /\ pc = "loop" /\ algo.err = "" /\ i >= 4 /\ Len(algo.timeline) = i
  /\ \E j, k \in DOMAIN algo.timeline :
       /\ j < k /\ EvictedOf(algo.timeline[j]) # None /\ EvictedOf(algo.timeline[k]) # None
       /\ algo.timeline[j][4] # algo.timeline[k][4]

\* C15 as stated: a multi-process run requested with a non-positive total
\* frame count is never started, under global and under fixed allocation.
NonPositiveNeverStarted ==
  margs.total_frames <= 0 => (mpc \in {"start", "raised"} /\ n = 0)

\* C15: with a non-positive total frame count a global run fails at
\* construction, before any request is processed; a fixed run is started
\* with one frame per process and a warning, and raises nothing.
NonPositiveTotalFrames ==
  margs.total_frames <= 0 =>
    IF alloc_strategy = "global"
    THEN mpc \in {"start", "raised"} /\ n = 0 /\ global_sim = NoAlgo
    ELSE /\ mpc # "raised"
         /\ mpc # "start" =>
              /\ warned /\ frames_per_process = 1
              /\ \A pid \in DOMAIN simulators : simulators[pid].num_frames = 1

\* a fixed run with no frames to share has served all its requests
NonPositiveTotalFramesWitness ==
  /\ alloc_strategy = "fixed" /\ margs.total_frames <= 0 /\ mpc = "done"
  /\ n = Len(mworkload) /\ n >= 2 /\ warned
  /\ total_stats.TotalRequests = n

\* all-zero statistics with ratios of 0
AllZero(st) == st.TotalRequests = 0 /\ st.PageHits = 0 /\ st.PageFaults = 0

\* C16: a zero-length trace yields Total Requests = 0, Page Hits = 0, Page
\* Faults = 0 and hit and miss ratios 0, with no division error, from a fresh
\* policy's get_stats, from the single-process driver's collector and from
\* the fixed-allocation aggregate.
EmptyTraceStats ==
  /\ (pc \in {"stats", "again"} /\ workload = <<>>) =>
       /\ AllZero(result) /\ AllZero(collected)
       /\ result.HitRatioRaw = Zero /\ result.MissRatioRaw = Zero
       /\ result.HitRatio = 0 /\ result.MissRatio = 0
       /\ collected.HitRatio = Zero /\ collected.MissRatio = Zero
  /\ (mpc = "done" /\ mworkload = <<>>) =>
       /\ AllZero(total_stats)
       /\ total_stats.HitRatio = 0 /\ total_stats.MissRatio = 0

\* the statistics of a fresh policy and of the collector of an empty run
EmptyTraceStatsWitness ==
  /\ pc = "stats" /\ workload = <<>> /\ algo.kind = "MGLRU" /\ algo.step = 0
  /\ result.TotalRequests = 0 /\ collected.TotalRequests = 0

\* C17: get_stats is a pure read: it changes no policy state, two calls with
\* no request in between return identical results, and Total Requests is
\* always Page Hits + Page Faults.
StatsPureRead ==
  [][(pc \in {"done", "stats"} /\ pc' \in {"stats", "again"}) =>
       /\ algo' = algo
       /\ result'.TotalRequests = result'.PageHits + result'.PageFaults
       /\ result'.PageHits = algo.page_hits /\ result'.PageFaults = algo.page_faults
       /\ pc = "stats" => result' = result]_vars

\* the second call after a run with a hit and a fault
StatsPureReadWitness ==
  /\ pc = "again" /\ algo.page_hits >= 1 /\ algo.page_faults >= 1
  /\ result = get_stats(algo) /\ result.TotalRequests = Len(workload)

\* range(min_frames, max_frames + 1)
frame_range(lo, hi) == [k \in 1..(IF hi >= lo THEN hi - lo + 1 ELSE 0) |-> lo + k - 1]

\* every (policy, frame count) combination of the sweep, in order
Combos ==
  LET fr == frame_range(compare.min_frames, compare.max_frames)
      m == Len(fr)
  IN  [k \in 1..(Len(alg_list) * m) |->
         <<alg_list[((k - 1) \div m) + 1], fr[((k - 1) % m) + 1]>>]

\* the combinations whose try block has ended
Finished == IF pc \in {"sweep", "swept"} THEN Len(attempts) ELSE Len(attempts) - 1

SweepSafe ==
  (pc \notin {"cmd", "exited"}) =>
     /\ pc # "aborted"
     /\ Len(attempts) <= Len(Combos)
     /\ attempts = SubSeq(Combos, 1, Len(attempts))
     /\ Len(caught) + Len(results_data) = Finished
     /\ \A k \in DOMAIN caught :
          \E j \in DOMAIN attempts : attempts[j] = <<caught[k][1], caught[k][2]>>
     /\ \A j \in DOMAIN attempts :
          attempts[j][2] <= 0 => \E k \in DOMAIN caught : caught[k] = <<attempts[j][1], attempts[j][2], "ValueError">>
     /\ pc = "swept" => attempts = Combos

\* C18: in a comparison sweep an error raised for one (policy, frame count)
\* combination is caught and every remaining combination is still attempted,
\* in order, until the sweep ends.
SweepContinues ==
  /\ []SweepSafe
  /\ <>(pc = "exited" \/ (pc = "swept" /\ attempts = Combos))

\* a sweep from 0 frames has ended: the first combination raised ValueError
\* and all the later ones were attempted
SweepContinuesWitness ==
  /\ pc = "swept" /\ compare.min_frames = 0 /\ compare.max_frames >= 1
  /\ Len(attempts) = 4 * (compare.max_frames + 1)
  /\ caught[1] = <<"FIFO", 0, "ValueError">>
  /\ attempts[2] = <<"FIFO", 1>>

\* C19: in every command mode an empty trace is nothing to simulate: the
\* command ends without constructing a policy or calling a simulation
\* function. Here for the multi-process command.
EmptyTraceNothingConstructed ==
  mworkload = <<>> => (mpc = "start" /\ simulators = <<>> /\ global_sim = NoAlgo)

\* C20: MGLRU increments the tick counter on every call, hit or fault, before
\* the hit/fault decision; aging fires exactly on every aging_threshold-th
\* call and the counter is 0 right after; a firing scans generations N-2 down
\* to 0 and moves only the head of the first non-empty generation found to
\* the tail of the next older generation, and no other page.
AgingCadence ==
  [][(Calling /\ algo.kind = "MGLRU" /\ algo'.err = "") =>
       LET call == algo.step + 1
           fires == call % algo.aging_threshold = 0
           mid == MGLRU_tick(algo)
           src == {g \in 1..(algo.num_generations - 1) : algo.generations[g] # <<>>}
       IN  /\ algo'.step = call
           /\ algo'.age_tick_counter = call % algo.aging_threshold
           /\ mid.age_tick_counter = algo'.age_tick_counter
           /\ fires <=> (algo.age_tick_counter + 1 = algo.aging_threshold)
           /\ algo' = IF Requested \in Resident(mid) THEN MGLRU_hit(mid, Requested)
                      ELSE MGLRU_fault(mid, Requested)
           /\ IF ~fires \/ src = {}
              THEN mid.generations = algo.generations /\ mid.page_map = algo.page_map
              ELSE LET g == MaxOf(src)
                       p == Head(algo.generations[g])
                   IN  /\ mid.generations[g] = Tail(algo.generations[g])
                       /\ mid.generations[g + 1] = Append(algo.generations[g + 1], p)
                       /\ \A h \in DOMAIN algo.generations \ {g, g + 1} :
                            mid.generations[h] = algo.generations[h]
                       /\ DictGet(mid.page_map, p) = g
                       /\ \A q \in Resident(algo) \ {p} :
                            DictGet(mid.page_map, q) = DictGet(algo.page_map, q)
                       /\ Resident(mid) = Resident(algo)]_vars

\* with three generations and threshold 2 the fourth call has aged a page
\* out of generation 1 while generation 0 held a page
AgingCadenceWitness ==
  /\ pc = "loop" /\ algo.kind = "MGLRU" /\ algo.err = ""
  /\ algo.num_generations = 3 /\ algo.aging_threshold = 2
  /\ algo.step = 4 /\ algo.age_tick_counter = 0
  /\ algo.generations[3] # <<>> /\ algo.generations[1] # <<>>

\* an MGLRU call whose tick reaches aging_threshold
AgingFires == Calling /\ algo.kind = "MGLRU" /\ algo.age_tick_counter + 1 >= algo.aging_threshold

\* the pages whose generation differs between policy states a and b
Moved(a, b) == {p \in Resident(a) : DictGet(b.page_map, p) # DictGet(a.page_map, p)}

\* the generations below the last that hold a page (0-based)
AgeableGenerations(a) == {g \in 0..(a.num_generations - 2) : a.generations[g + 1] # <<>>}

\* C21 as stated: every time the tick counter reaches aging_threshold and is
\* reset, exactly one resident page, the oldest page of the lowest non-empty
\* generation below the last, is moved one generation older.
AgingMovesLowest ==
  [][AgingFires =>
       LET mid == MGLRU_tick(algo)
           low == CHOOSE g \in AgeableGenerations(algo) :
                    \A h \in AgeableGenerations(algo) : g <= h
       IN  /\ AgeableGenerations(algo) # {}
           /\ Moved(algo, mid) = {Head(algo.generations[low + 1])}
           /\ DictGet(mid.page_map, Head(algo.generations[low + 1])) = low + 1]_vars

\* C21: every time the tick counter reaches aging_threshold it is reset to 0
\* and at most one resident page is moved one generation older: the oldest
\* page of the highest-index non-empty generation below the last, and no
\* page when every generation below the last is empty.
AgingMovesOne ==
  [][AgingFires =>
       LET mid == MGLRU_tick(algo)
       IN  /\ mid.age_tick_counter = 0
           /\ IF AgeableGenerations(algo) = {}
              THEN Moved(algo, mid) = {} /\ mid.generations = algo.generations
              ELSE LET high == MaxOf(AgeableGenerations(algo))
                       page == Head(algo.generations[high + 1])
                   IN  /\ Moved(algo, mid) = {page}
                       /\ DictGet(algo.page_map, page) = high
                       /\ DictGet(mid.page_map, page) = high + 1
                       /\ mid.generations[high + 2] = Append(algo.generations[high + 2], page)
                       /\ mid.generations[high + 1] = Tail(algo.generations[high + 1])
                       /\ SumLen(mid.generations) = SumLen(algo.generations)]_vars

\* a firing has moved a page into the last of two generations
AgingMovesOneWitness ==
  /\ pc = "loop" /\ algo.kind = "MGLRU" /\ algo.err = ""
  /\ algo.num_generations = 2 /\ algo.aging_threshold = 2
  /\ algo.step = 2 /\ algo.age_tick_counter = 0
  /\ algo.generations[2] # <<>>

\* sequence lst without the occurrences of p, order kept
Others(lst, p) == SelectSeq(lst, LAMBDA x : x # p)

\* C22: after an MGLRU hit the requested page is in generation 0 (appended at
\* its tail if it was in an older generation, left in place if it was already
\* in generation 0), no page is evicted or inserted, and the contents and
\* relative order of every other page in every generation are unchanged by
\* the hit.
MGLRUHitEffect ==
  [][(Calling /\ algo.kind = "MGLRU" /\ Requested \in Resident(algo) /\ algo'.err = "") =>
       LET mid == MGLRU_tick(algo)
           was == DictGet(mid.page_map, Requested)
       IN  /\ LastEntry(algo')[3] = "Hit" /\ EvictedOf(LastEntry(algo')) = None
           /\ Resident(algo') = Resident(algo)
           /\ algo'.current_page_count = algo.current_page_count
           /\ DictGet(algo'.page_map, Requested) = 0
           /\ Copies(algo', Requested) = 1
           /\ IF was = 0
              THEN algo'.generations = mid.generations
              ELSE algo'.generations[1] = Append(mid.generations[1], Requested)
           /\ \A g \in DOMAIN algo'.generations :
                Others(algo'.generations[g], Requested) = Others(mid.generations[g], Requested)
           /\ \A q \in Resident(algo) \ {Requested} :
                DictGet(algo'.page_map, q) = DictGet(mid.page_map, q)]_vars

\* a hit has brought an aged page back to the tail of generation 0, behind a
\* page that arrived after it
MGLRUHitEffectWitness ==
  /\ pc = "loop" /\ algo.kind = "MGLRU" /\ algo.err = "" /\ algo.timeline # <<>>
  /\ LET tl == algo.timeline
         e == LastEntry(algo)
     IN  /\ e[3] = "Hit"
         /\ \E j, k \in DOMAIN tl :
              /\ j < k /\ tl[j][3] = "Fault" /\ tl[j][2] = e[2]
              /\ tl[k][3] = "Fault" /\ tl[k][2] # e[2]
              /\ algo.generations[1] = <<tl[k][2], e[2]>>

\* C23: on a hit FIFO and Optimal change nothing but the step, the hit
\* counter and the timeline: the frame list and, for FIFO, the arrival queue
\* are identical before and after the call.
HitChangesNoOrder ==
  [][(Calling /\ algo.kind \in {"FIFO", "Optimal"} /\ Requested \in Resident(algo)) =>
       /\ algo'.frames = algo.frames
       /\ algo'.queue = algo.queue
       /\ algo' = [algo EXCEPT !.step = @ + 1, !.page_hits = @ + 1,
                               !.timeline = Append(@, <<algo.step + 1, Requested, "Hit",
                                                        algo.frames>>)]]_vars

\* Optimal has just hit the page at the front of two frames
HitChangesNoOrderWitness ==
  /\ pc = "loop" /\ algo.kind = "Optimal" /\ algo.timeline # <<>>
  /\ LastEntry(algo)[3] = "Hit" /\ Len(algo.frames) = 2
  /\ algo.frames[1] = LastEntry(algo)[2]

\* every element of lst occurs in it once
Distinct(lst) == Cardinality({lst[j] : j \in DOMAIN lst}) = Len(lst)

\* C24: after every FIFO request the arrival queue holds exactly the resident
\* pages, each once, in the order of the frame list, and its front is the
\* next eviction victim; the LRU frame list holds each resident page once
\* with the least recently touched page at the front.
OrderMatchesResidency ==
  [][(Calling /\ algo.kind \in {"FIFO", "LRU"} /\ algo'.err = "") =>
       LET e == LastEntry(algo')
           evicting == Requested \notin Resident(algo) /\ Len(algo.frames) = algo.num_frames
       IN  /\ Distinct(algo'.frames)
           /\ algo.kind = "FIFO" =>
                /\ algo'.queue = algo'.frames
                /\ {algo'.queue[j] : j \in DOMAIN algo'.queue} = Resident(algo')
                /\ evicting => EvictedOf(e) = Head(algo.queue)
           /\ algo.kind = "LRU" =>
                /\ \A q \in Resident(algo') :
                     LastTouch(algo'.timeline, algo'.frames[1]) <= LastTouch(algo'.timeline, q)
                /\ \A j, k \in DOMAIN algo'.frames :
                     j < k => LastTouch(algo'.timeline, algo'.frames[j])
                                < LastTouch(algo'.timeline, algo'.frames[k])
                /\ evicting => EvictedOf(e) = Head(algo.frames)]_vars

\* FIFO has evicted the front of its queue after a hit on it
OrderMatchesResidencyWitness ==
  /\ pc = "loop" /\ algo.kind = "FIFO" /\ algo.num_frames = 2 /\ Len(algo.timeline) >= 4
  /\ Len(algo.queue) = 2 /\ algo.queue = algo.frames
  /\ LET tl == algo.timeline
     IN  /\ EvictedOf(LastEntry(algo)) # None
         /\ \E h \in DOMAIN tl : tl[h][3] = "Hit" /\ tl[h][2] = EvictedOf(LastEntry(algo))

\* C25 as stated: for each index i of the trace the driver calls the policy
\* once with page trace[i] and with future equal to trace[i+1:].
DriverPassesSuffix ==
  [][Calling =>
       /\ algo'.step = algo.step + 1
       /\ last_call'.page_number = Requested
       /\ last_call'.given
       /\ last_call'.workload_future = Slice(workload, i + 1)]_vars

\* C25: for each index i of the trace the driver calls the policy once with
\* page trace[i]; the future is trace[i+1:] when the policy is Optimal and
\* the driver finds the page absent from the frames, the empty list when the
\* policy is Optimal and the page is in the frames, and is not passed to the
\* other policies.
DriverLookahead ==
  [][Calling =>
       /\ algo'.step = algo.step + 1
       /\ LastEntry(algo')[2] = Requested
       /\ last_call'.page_number = Requested
       /\ last_call'.given <=> algo.kind = "Optimal"
       /\ last_call'.workload_future =
            IF algo.kind = "Optimal" /\ Requested \notin Resident(algo)
            THEN Slice(workload, i + 1)
            ELSE <<>>
       /\ (algo.kind = "Optimal" /\ LastEntry(algo')[3] = "Fault") =>
            last_call'.workload_future = SubSeq(workload, i + 2, Len(workload))]_vars

\* Optimal has evicted a page on a fault that was given a non-empty future
DriverLookaheadWitness ==
  /\ pc = "loop" /\ algo.kind = "Optimal" /\ algo.timeline # <<>>
  /\ EvictedOf(LastEntry(algo)) # None
  /\ last_call.given /\ last_call.workload_future # <<>>
  /\ last_call.workload_future = SubSeq(workload, i + 1, Len(workload))
  /\ \E h \in DOMAIN algo.timeline : algo.timeline[h][3] = "Hit"

\* a request of the multi-process loop is about to be routed
Routing == mpc = "loop" /\ n < Len(mworkload) /\ margs.alg_class = "Optimal"

\* the number of requests of process pid among the first k of trace wl
OwnCount(wl, pid, k) == Cardinality({j \in 1..k : wl[j][1] = pid})

\* C26: for Optimal, under global allocation the future passed with the i-th
\* request is the suffix of the interleaved trace after it, as (tenant, page)
\* pairs; under fixed allocation the future passed with a tenant's k-th
\* request is that tenant's own sub-sequence after its k-th element, never
\* containing another tenant's requests.
MultiLookahead ==
  [][(Routing /\ (n' = n + 1 \/ mpc' = "raised")) =>
       LET pid == mworkload[n + 1][1]
           page_num == mworkload[n + 1][2]
           own == SubTrace(mworkload, pid)
           k == OwnCount(mworkload, pid, n + 1)
       IN  IF alloc_strategy = "global"
           THEN /\ last_call'.page_number = <<pid, page_num>>
                /\ last_call'.workload_future = SubSeq(mworkload, n + 2, Len(mworkload))
           ELSE /\ last_call'.page_number = page_num
                /\ own[k] = page_num
                /\ last_call'.workload_future = SubSeq(own, k + 1, Len(own))
                /\ Len(last_call'.workload_future) = Len(own) - k]_vars

\* under fixed allocation tenant 2's first request was given its own next
\* page as future, skipping the request of tenant 1 in between
MultiLookaheadWitness ==
  /\ alloc_strategy = "fixed" /\ margs.alg_class = "Optimal" /\ mpc = "loop"
  /\ Len(mworkload) = 3 /\ n = 1
  /\ mworkload[1][1] = 2 /\ mworkload[2][1] = 1 /\ mworkload[3][1] = 2
  /\ mworkload[2][2] # mworkload[3][2]
  /\ last_call.workload_future = <<mworkload[3][2]>>

\* policy a after the requests trace[k..last], each with the rest of the
\* trace as its future
RECURSIVE RunTo(_, _, _, _)
RunTo(a, trace, k, last) ==
  IF k > last THEN a
  ELSE RunTo(process_page_request(a, trace[k], Slice(trace, k)), trace, k + 1, last)

\* what process pid's policy is after the first k requests of the interleaved
\* trace, computed from that process's own requests alone
Alone(pid, k) ==
  RunTo(NewPolicy(margs.alg_class, frames_per_process), SubTrace(mworkload, pid), 1,
        OwnCount(mworkload, pid, k))

\* C27: under fixed allocation a tenant's hit/fault outcomes and frame state
\* depend only on that tenant's own sub-sequence: at every point of the run
\* its policy is what a fresh policy fed that sub-sequence alone would be, so
\* interleavings with the same per-tenant sub-sequences give identical
\* per-tenant and aggregate hit and fault counts.
TenantIsolation ==
  (alloc_strategy = "fixed" /\ mpc \in {"loop", "done"}) =>
    /\ \A pid \in DOMAIN simulators : simulators[pid] = Alone(pid, n)
    /\ mpc = "done" =>
         LET hits(pid) == Alone(pid, Len(mworkload)).page_hits
             faults(pid) == Alone(pid, Len(mworkload)).page_faults
         IN  /\ total_stats.PageHits = SumTo(hits, margs.num_processes)
             /\ total_stats.PageFaults = SumTo(faults, margs.num_processes)

\* a finished run in which tenant 2 hit its page around a request of tenant 1
TenantIsolationWitness ==
  /\ alloc_strategy = "fixed" /\ mpc = "done" /\ Len(mworkload) = 3
  /\ mworkload[1][1] = 2 /\ mworkload[2][1] = 1 /\ mworkload[3] = mworkload[1]
  /\ simulators[2].page_hits = 1 /\ simulators[1].page_faults = 1

\* the fault count of Optimal with num_frames frames on trace, every request
\* given the true rest of the trace
OptimalFaults(trace, num_frames) ==
  RunFrom(Base_init("Optimal", num_frames), trace, 1).page_faults

\* C28: for every trace and every num_frames >= 1 the fault count of Optimal
\* driven with the true future suffix is at most the fault counts of FIFO,
\* LRU and MGLRU on the same trace with the same num_frames.
OptimalNeverWorse ==
  (pc = "done" /\ algo.kind # "none") =>
    IF algo.kind = "Optimal"
    THEN algo.page_faults = OptimalFaults(workload, algo.num_frames)
    ELSE OptimalFaults(workload, algo.num_frames) <= algo.page_faults

\* FIFO has finished a trace on which it faults more often than Optimal
OptimalNeverWorseWitness ==
  /\ pc = "done" /\ algo.kind = "FIFO" /\ algo.num_frames = 2
  /\ OptimalFaults(workload, 2) < algo.page_faults
  /\ algo.page_hits >= 1

\* the hit/fault outcomes and evicted pages of a timeline
Outcomes(tl) == [k \in DOMAIN tl |-> <<tl[k][2], tl[k][3], EvictedOf(tl[k])>>]

\* FIFO with num_frames frames after the first k requests of trace
FIFOAfter(trace, num_frames, k) == RunTo(Base_init("FIFO", num_frames), trace, 1, k)

\* C29: for every trace shorter than aging_threshold, and for every trace
\* when num_generations = 1, MGLRU produces the same sequence of hit/fault
\* outcomes and evicted pages as FIFO with the same num_frames.
MGLRUDegeneratesToFIFO ==
  (algo.kind = "MGLRU" /\ algo.err = ""
     /\ (algo.num_generations = 1 \/ Len(workload) < algo.aging_threshold)) =>
    LET fifo == FIFOAfter(workload, algo.num_frames, i)
    IN  /\ Len(algo.timeline) = i
        /\ Outcomes(algo.timeline) = Outcomes(fifo.timeline)
        /\ algo.page_hits = fifo.page_hits /\ algo.page_faults = fifo.page_faults
        /\ Resident(algo) = Resident(fifo)

\* MGLRU with three generations has evicted, FIFO-wise, a page it had hit
\* after the arrival of the page it kept
MGLRUDegeneratesToFIFOWitness ==
  /\ pc = "done" /\ algo.kind = "MGLRU" /\ algo.num_generations = 3 /\ algo.num_frames = 2
  /\ Len(workload) < algo.aging_threshold /\ Len(algo.timeline) >= 4
  /\ LET tl == algo.timeline
     IN  \E f, h, v \in DOMAIN tl :
           /\ f < h /\ h < v
           /\ tl[f][3] = "Fault" /\ tl[f][2] # tl[h][2] /\ tl[f][2] \in Resident(algo)
           /\ tl[h][3] = "Hit"
           /\ EvictedOf(tl[v]) = tl[h][2]

\* the resident pages summed over the policies of pids 1..k
RECURSIVE TotalResident(_, _)
TotalResident(sims, k) ==
  IF k = 0 THEN 0 ELSE ResidentCount(sims[k]) + TotalResident(sims, k - 1)

\* the fixed-allocation run has built its policies
FixedStarted == alloc_strategy = "fixed" /\ simulators # <<>>

\* C30 as stated: under fixed allocation the resident pages summed over all
\* tenant policies never exceed total_frames, for every accepted total_frames
\* and num_processes >= 1.
FixedWithinTotalFrames ==
  FixedStarted => TotalResident(simulators, Len(simulators)) <= margs.total_frames

\* C30, amended: every tenant policy holds at most its own budget; the sum
\* never exceeds total_frames when total_frames >= num_processes, and never
\* exceeds num_processes (one page per tenant) when the division underflows.
FixedWithinBudget ==
  FixedStarted =>
    /\ Len(simulators) = margs.num_processes
    /\ \A pid \in DOMAIN simulators :
         /\ simulators[pid].num_frames = frames_per_process
         /\ ResidentCount(simulators[pid]) <= frames_per_process
    /\ TotalResident(simulators, Len(simulators)) <=
         IF margs.total_frames >= margs.num_processes
         THEN margs.total_frames ELSE margs.num_processes

\* two tenants sharing one requested frame hold two pages, after an eviction
FixedWithinBudgetWitness ==
  /\ FixedStarted /\ mpc = "loop" /\ n = 3
  /\ margs.total_frames = 1 /\ margs.num_processes = 2 /\ warned
  /\ TotalResident(simulators, 2) = 2
  /\ \E pid \in 1..2 : simulators[pid].page_faults = 2

\* the attempted (policy, frame count) combinations with a positive frame count
PositiveAttempts == SelectSeq(attempts, LAMBDA a : a[2] > 0)

\* C31 as stated: in a comparison sweep over a non-empty trace every
\* combination with a positive frame count completes without an error and
\* appends exactly one result record, so no such combination is ever in the
\* handler's list and the finished sweep holds one record per such combination.
SweepOneRecordEach ==
  /\ \A k \in DOMAIN caught : caught[k][2] <= 0
  /\ Len(results_data) <= Len(PositiveAttempts)
  /\ (pc = "swept" /\ workload # <<>>) => Len(results_data) = Len(PositiveAttempts)

====
